---------------------------- MODULE Spec2Model ----------------------------
(***************************************************************************)
(* A model of the lnk-parser decoder: the primitive decoders of util.ts,   *)
(* LinkTargetIDList (parse and getPath) and LNKParser (parseHeader and     *)
(* parse).                                                                 *)
(*                                                                         *)
(* Conventions.  A Buffer or number[] is a sequence of bytes 0..255; the   *)
(* JavaScript index i is the TLA+ index i + 1.  A JavaScript string is the *)
(* sequence of its UTF-16 code units.  A 64-bit integer is the sequence of *)
(* its eight base-256 digits, least significant first, because the model   *)
(* checker's integers are 32 bits wide.  A Date is the pair [min, ms] that *)
(* stands for min * 60000 + ms milliseconds since 1970, 0 <= ms < 60000.   *)
(***************************************************************************)
EXTENDS Integers, Sequences, FiniteSets, TLC

VARIABLES
    \* ---- LNKParser and its caller
    input,          \* what the caller encoded into the file image
    buffer,         \* LNKParser.buffer
    offset,         \* LNKParser.offset, the instance read cursor
    tz,             \* new Date().getTimezoneOffset() of the process, in minutes
    pc,             \* position of the running parse() call: "idle" or "loop"
    lnkFile,        \* parseHeader's local lnkFile while the call runs
    readOffset,     \* LinkTargetIDList.parse: local readOffset
    remainingBytes, \* LinkTargetIDList.parse: local remainingBytes
    shellItemSize,  \* LinkTargetIDList.parse: local shellItemSize
    parsedItems,    \* LinkTargetIDList.parse: local items
    ret,            \* outcome of the last parse() call
    prevRet,        \* outcome of the parse() call before it
    calls,          \* number of parse() calls that have ended
    hasTarget,      \* the caller holds a returned record, hence its target list
    items,          \* LinkTargetIDList.items of the list the caller holds
    cachedPath,     \* LinkTargetIDList.cachedPath of that list
    pathRet,        \* outcome of the caller's last getPath() call on that list
    firstPath,      \* the first path getPath() computed for that list
    edits,          \* number of times the caller has assigned items
    \* ---- GUID decoder and formatter
    guidBytes,      \* the 16 input bytes
    guidEdits,      \* number of bytes the input was changed in
    guidString,     \* formatGUID(guidFromIDLBytes(guidBytes)), once computed
    \* ---- FILETIME decoder
    filetime,       \* the tick count handed to dateFromFILETIME
    tzOffset,       \* the timezone offset in force at the call
    date            \* the Date it returned

parserVars == <<input, buffer, offset, tz, pc, lnkFile, readOffset, remainingBytes,
                shellItemSize, parsedItems, ret, prevRet, calls, hasTarget, items,
                cachedPath, pathRet, firstPath, edits>>
guidVars == <<guidBytes, guidEdits, guidString>>
timeVars == <<filetime, tzOffset, date>>
vars == <<parserVars, guidVars, timeVars>>

-----------------------------------------------------------------------------
(* Bounds of the model. *)

\* LinkTargetIDList.parse is followed for at most this many loop iterations.
MaxItems == 4
\* parse() is called at most this many times on one parser.
MaxCalls == 2
\* The caller assigns the items of a returned list at most this many times.
MaxEdits == 1
\* The GUID input differs from its base pattern in at most this many bytes.
MaxGuidEdits == 1

-----------------------------------------------------------------------------
(* JavaScript values. *)

Byte == 0..255

\* JavaScript's undefined where a byte was expected: an index past the end.
undefined == 0 - 1

\* buffer[i]
At(bytes, i) == IF i >= 0 /\ i < Len(bytes) THEN bytes[i + 1] ELSE undefined

\* ToInt32 / ToUint16 of buffer[i]: undefined converts to 0.
IntAt(bytes, i) == IF i >= 0 /\ i < Len(bytes) THEN bytes[i + 1] ELSE 0

\* Buffer.prototype.slice / Array.prototype.slice(start, end), 0 <= start:
\* both ends are clamped to the length.
Slice(bytes, start, end) ==
    LET s == IF start > Len(bytes) THEN Len(bytes) ELSE start
        e == IF end > Len(bytes) THEN Len(bytes) ELSE end
    IN  IF e <= s THEN <<>> ELSE SubSeq(bytes, s + 1, e)

\* x << 8, x << 16, x << 24 on a byte; the last one yields a negative int32
\* when bit 7 of the byte is set.
Shl8(b) == b * 256
Shl16(b) == b * 65536
Shl24(b) == IF b >= 128 THEN (b - 256) * 16777216 ELSE b * 16777216

\* x >> k on an int32: the arithmetic shift.
Shr(x, k) == x \div (2 ^ k)

\* x & 0xf on an int32 (two's complement).
And0xf(x) == x % 16

-----------------------------------------------------------------------------
(* util.ts *)

\* guidFromIDLBytes: the operands of | occupy disjoint bits, so | adds.
guidFromIDLBytes(bytes) ==
    << Shl24(IntAt(bytes, 3)) + Shl16(IntAt(bytes, 2)) + Shl8(IntAt(bytes, 1))
           + IntAt(bytes, 0),
       Shl8(IntAt(bytes, 5)) + IntAt(bytes, 4),
       Shl8(IntAt(bytes, 7)) + IntAt(bytes, 6) >>
    \o Slice(bytes, 8, Len(bytes))

hexToCharUpper(num) ==
    LET n == And0xf(num) IN IF n > 9 THEN n - 10 + 65 ELSE n + 48

\* hexToChar: the code unit of the hex digit of num & 0xf; 0x61 is "a", 0x30 "0".
hexToChar(num) ==
    LET n == And0xf(num) IN IF n > 9 THEN n - 10 + 97 ELSE n + 48

\* formatGUID, lines 37-47: the sixteen (unmasked) data values.
guidData(guid) ==
    << Shr(guid[1], 24), Shr(guid[1], 16), Shr(guid[1], 8), guid[1],
       Shr(guid[2], 8), guid[2],
       Shr(guid[3], 8), guid[3] >>
    \o SubSeq(guid, 4, Len(guid))

\* formatGUID, lines 49-55: two hex digits per data value.
hexString(data) ==
    [k \in 1..(2 * Len(data)) |->
        IF k % 2 = 1 THEN hexToChar(Shr(data[(k + 1) \div 2], 4))
                     ELSE hexToChar(data[k \div 2])]

\* String.prototype.substr(start, length) and slice(start).
Substr(s, start, length) == Slice(s, start, start + length)

formatGUID(guid) ==
    LET hs == hexString(guidData(guid))
    IN  <<123>> \o Substr(hs, 0, 8) \o <<45>> \o Substr(hs, 8, 4) \o <<45>>
        \o Substr(hs, 12, 4) \o <<45>> \o Substr(hs, 16, 4) \o <<45>>
        \o Slice(hs, 20, Len(hs)) \o <<125>>

\* String.fromCharCode(buffer[i]) as a code unit: undefined gives "\0".
CharAt(bytes, i) == IntAt(bytes, i)

RECURSIVE readCStringFrom(_, _, _)
readCStringFrom(bytes, off, acc) ==
    IF CharAt(bytes, off) = 0 THEN acc
    ELSE readCStringFrom(bytes, off + 1, Append(acc, CharAt(bytes, off)))

\* readCString: code units up to the first zero; an index past the end reads
\* undefined, which String.fromCharCode turns into "\0".
readCString(bytes, off) == readCStringFrom(bytes, off, <<>>)

RECURSIVE readCUnicodeFrom(_, _, _)
readCUnicodeFrom(bytes, off, acc) ==
    LET c == Shl8(IntAt(bytes, off + 1)) + IntAt(bytes, off)
    IN  IF c = 0 THEN acc ELSE readCUnicodeFrom(bytes, off + 2, Append(acc, c))

\* readCUnicode: 16-bit little-endian code units up to the first zero unit.
readCUnicode(bytes, off) == readCUnicodeFrom(bytes, off, <<>>)

\* readString: exactly length code units, no terminator logic.
readString(bytes, off, length) == [k \in 1..length |-> CharAt(bytes, off + k - 1)]

-----------------------------------------------------------------------------
(* 64-bit integers as eight base-256 digits, least significant first. *)

RECURSIVE DivFrom(_, _, _, _, _)
DivFrom(digits, d, k, rem, acc) ==
    IF k = 0 THEN [q |-> acc, r |-> rem]
    ELSE LET cur == rem * 256 + digits[k]
         IN  DivFrom(digits, d, k - 1, cur % d, <<cur \div d>> \o acc)

\* Quotient (as digits) and remainder of digits / d, for 0 < d <= 60000.
DivMod(digits, d) == DivFrom(digits, d, Len(digits), 0, <<>>)

\* The value of a digit sequence below 2^31.
DigitsValue(digits) ==
    digits[1] + digits[2] * 256 + digits[3] * 65536 + digits[4] * 16777216

-----------------------------------------------------------------------------
(* util.ts, dateFromFILETIME *)

\* 116444736e5 milliseconds, in minutes: 116444736 * 10^5 / 60000.
EpochOffsetMinutes == (116444736 * 10) \div 6

\* The same with the offset 116444736e6 milliseconds.
dateFromFILETIMETenfold(ticks, tzMinutes) ==
    LET ms == DivMod(ticks, 10000)
        mn == DivMod(ms.q, 60000)
        m  == DigitsValue(mn.q) - (116444736 \div 6) * 100 - tzMinutes
    IN  IF m < 0 /\ ms.r > 0
        THEN IF mn.r + 1 = 60000 THEN [min |-> m + 1, ms |-> 0]
                                 ELSE [min |-> m, ms |-> mn.r + 1]
        ELSE [min |-> m, ms |-> mn.r]

\* dateFromFILETIME: new Date(filetime / 10000 - 116444736e5 - tz * 60 * 1000).
\* The epoch offset and the timezone offset are whole minutes, so they change
\* only the minute count; Date truncates the fractional milliseconds towards
\* zero (TimeClip), which rounds a negative value up.
dateFromFILETIME(ticks, tzMinutes) ==
    LET ms == DivMod(ticks, 10000)
        mn == DivMod(ms.q, 60000)
        m  == DigitsValue(mn.q) - EpochOffsetMinutes - tzMinutes
    IN  IF m < 0 /\ ms.r > 0
        THEN IF mn.r + 1 = 60000 THEN [min |-> m + 1, ms |-> 0]
                                 ELSE [min |-> m, ms |-> mn.r + 1]
        ELSE [min |-> m, ms |-> mn.r]

-----------------------------------------------------------------------------
(* LinkTargetIDList.ts *)

MyComputer == <<77, 89, 95, 67, 79, 77, 80, 85, 84, 69, 82>>   \* 'MY_COMPUTER'

\* TargetRootGuids: its one key is '{20D04FE0-3AEA-1069-A2D8-08002B30309D}'.
TargetRootGuids ==
    [key \in {<<123, 50, 48, 68, 48, 52, 70, 69, 48, 45, 51, 65, 69, 65, 45,
                49, 48, 54, 57, 45, 65, 50, 68, 56, 45, 48, 56, 48, 48, 50, 66,
                51, 48, 51, 48, 57, 68, 125>>} |-> MyComputer]

\* LinkTargetIDItemTypes
RootEntry == 31
DriveLetter == 47
Directory == 49
DirectoryUnicode == 53
File == 50
FileUnicode == 54
UserDirectory == 116

\* new LinkTargetIDItem(itemType, value): an undefined itemType takes the
\* parameter's default, RootEntry.
LinkTargetIDItem(itemType, value) ==
    [itemType |-> IF itemType = undefined THEN RootEntry ELSE itemType,
     value |-> value]

Text(t) == [fault |-> FALSE, text |-> t, error |-> ""]
Throw(e) == [fault |-> TRUE, text |-> <<>>, error |-> e]

\* getPath, lines 89-102 with no throw: either signature is taken as 'CFSF'.
userDirectoryPathLenient(item) ==
    Text(<<37, 85, 83, 69, 82, 80, 82, 79, 70, 73, 76, 69, 37, 92>>
         \o readCString(item.value, 21) \o <<92>>)

\* getPath, lines 89-102: the UserDirectory case.  'CF\0\0' and 'CFSF' are
\* the signatures; the prefix is '%USERPROFILE%\'.
userDirectoryPath(item) ==
    LET signature == readString(item.value, 3, 4)
    IN  IF signature = <<67, 70, 0, 0>> THEN Throw("Method not implemented")
        ELSE IF signature = <<67, 70, 83, 70>>
        THEN Text(<<37, 85, 83, 69, 82, 80, 82, 79, 70, 73, 76, 69, 37, 92>>
                  \o readCString(item.value, 21) \o <<92>>)
        ELSE Throw("Invalid signature!")

\* getPath, lines 56-118: what one item adds to the path, or the throw.  The
\* first matching case of the switch wins, so Directory never reaches the
\* unified case.
itemPath(item) ==
    CASE item.itemType = RootEntry ->
            LET guidStr == formatGUID(guidFromIDLBytes(item.value))
            IN  IF guidStr \in DOMAIN TargetRootGuids
                THEN Text(TargetRootGuids[guidStr]) ELSE Text(<<>>)
      [] item.itemType = DriveLetter ->
            Text(Slice(item.value, 0, 3))
      [] item.itemType = Directory ->
            Text(readCString(item.value, 11) \o <<92>>)
      [] item.itemType = UserDirectory ->
            userDirectoryPath(item)
      [] item.itemType \in {File, FileUnicode, DirectoryUnicode} ->
            LET isUnicode == item.itemType \in {DirectoryUnicode, FileUnicode}
                isDirectory == item.itemType \in {DirectoryUnicode, Directory}
                name == IF isUnicode THEN readCUnicode(item.value, 11)
                                     ELSE readCString(item.value, 11)
            IN  Text(name \o (IF isDirectory THEN <<92>> ELSE <<>>))
      [] OTHER -> Text(<<>>)

RECURSIVE pathFrom(_, _, _)
pathFrom(list, k, path) ==
    IF k > Len(list) THEN [kind |-> "path", path |-> path, error |-> ""]
    ELSE LET p == itemPath(list[k])
         IN  IF p.fault THEN [kind |-> "fault", path |-> <<>>, error |-> p.error]
             ELSE pathFrom(list, k + 1, path \o p.text)

\* getPath, lines 53-120: the loop over the items, from the empty path.
computePath(list) == pathFrom(list, 1, <<>>)

NoPath == [set |-> FALSE, value |-> <<>>]

\* getPath as memoised: the first computed path is returned ever after.
getPathMemo(list, cached) ==
    IF cached.set
    THEN [result |-> [kind |-> "path", path |-> cached.value, error |-> ""],
          cachedPath |-> cached]
    ELSE LET r == computePath(list)
         IN  [result |-> r,
              cachedPath |-> IF r.kind = "path"
                             THEN [set |-> TRUE, value |-> r.path] ELSE cached]

\* getPath with the path stored as it grows, so that a throw leaves the
\* partial path behind.
RECURSIVE partialPathFrom(_, _, _)
partialPathFrom(list, k, path) ==
    IF k > Len(list) \/ itemPath(list[k]).fault THEN path
    ELSE partialPathFrom(list, k + 1, path \o itemPath(list[k]).text)

getPathEager(list, cached) ==
    LET r == computePath(list)
    IN  [result |-> r,
         cachedPath |-> [set |-> TRUE, value |-> partialPathFrom(list, 1, <<>>)]]

\* getPath: the call's result and the cachedPath it leaves.  cachedPath is
\* assigned by the return statement alone (line 122) and never read.
getPath(list, cached) ==
    LET r == computePath(list)
    IN  [result |-> r,
         cachedPath |-> IF r.kind = "path"
                        THEN [set |-> TRUE, value |-> r.path] ELSE cached]

\* buffer.readUIntLE(off, 2) / buffer.readUInt16LE(off), for off + 2 <= length.
readUInt16LE(bytes, off) == bytes[off + 1] + Shl8(bytes[off + 2])

\* LinkTargetIDList.parse, lines 143-155, with the cursor advanced by the
\* whole item size although the size field was already consumed.
parseItemNoRewind(bytes, ro, rem, its) ==
    IF ro + 2 > Len(bytes)
    THEN [fault |-> TRUE, readOffset |-> ro, remainingBytes |-> rem,
          shellItemSize |-> 0, items |-> its]
    ELSE LET size == readUInt16LE(bytes, ro)
             at == ro + 2
         IN  [fault |-> FALSE,
              readOffset |-> at + size,
              remainingBytes |-> rem - size,
              shellItemSize |-> size,
              items |-> Append(its, LinkTargetIDItem(At(bytes, at),
                                        Slice(bytes, at + 1, at + size + 1)))]

\* LinkTargetIDList.parse, lines 143-155: one iteration of the while loop.
\* readUInt16LE throws a RangeError when the two bytes are not in the buffer;
\* buffer[readOffset] past the end is undefined and slice clamps.
parseItem(bytes, ro, rem, its) ==
    IF ro + 2 > Len(bytes)
    THEN [fault |-> TRUE, readOffset |-> ro, remainingBytes |-> rem,
          shellItemSize |-> 0, items |-> its]
    ELSE LET size == readUInt16LE(bytes, ro)
             at == ro + 2
         IN  [fault |-> FALSE,
              readOffset |-> at + size - 2,
              remainingBytes |-> rem - size,
              shellItemSize |-> size,
              items |-> Append(its, LinkTargetIDItem(At(bytes, at),
                                        Slice(bytes, at + 1, at + size + 1)))]

-----------------------------------------------------------------------------
(* LNKParser *)

VALID_HEADER_SIZE == 76

VALID_LINK_CLSID == <<136193, 0, 0, 192, 0, 0, 0, 0, 0, 0, 70>>

\* ShowCommands: Normal, Maximized, MinimizedWithoutFocus.
ShowCommands == {1, 3, 7}
Normal == 1

\* HotKeyFlags keeps the key and the modifier byte it is constructed from.
HotKeyFlags(key, modifiers) == [hotKey |-> key, modifierFlags |-> modifiers]

arrayEquals(arr1, arr2) ==
    Len(arr1) = Len(arr2) /\ \A i \in 1..Len(arr1) : arr2[i] = arr1[i]

\* buffer.readInt32LE(off), for off + 4 <= length.
readInt32LE(bytes, off) ==
    bytes[off + 1] + Shl8(bytes[off + 2]) + Shl16(bytes[off + 3]) + Shl24(bytes[off + 4])

\* buffer.readUInt32LE(off), for off + 4 <= length and a value below 2^31
\* (the inputs of this model keep the top bit clear).
readUInt32LE(bytes, off) ==
    bytes[off + 1] + Shl8(bytes[off + 2]) + Shl16(bytes[off + 3])
        + bytes[off + 4] * 16777216

\* readGUID_IDL(false, location)
readGUID_IDL(bytes, location) == guidFromIDLBytes(Slice(bytes, location, location + 16))

\* readFileTime(false, off): Number(buffer.readBigInt64LE(off)) is the eight
\* bytes taken as digits (the inputs of this model are non-negative).
readFileTime(bytes, off, tzMinutes) ==
    dateFromFILETIME(Slice(bytes, off, off + 8), tzMinutes)

\* parseHeader, lines 333 and 338, testing the class identifier alone.
headerValidClsidOnly(headerSize, linkCLSID) ==
    arrayEquals(linkCLSID, VALID_LINK_CLSID)

\* parseHeader, lines 328, 333 and 338: the value of valid.
headerValid(headerSize, linkCLSID) ==
    headerSize = VALID_HEADER_SIZE /\ arrayEquals(linkCLSID, VALID_LINK_CLSID)

\* parseHeader, lines 326-372: the fields of the fixed layout, read at
\* this.offset + readOffset.  The last numeric read ends at byte 64; a shorter
\* buffer makes one of the reads throw a RangeError.
headerFields(bytes, off, tzMinutes) ==
    IF Len(bytes) < off + 64 THEN [fault |-> TRUE]
    ELSE LET headerSize == readInt32LE(bytes, off)
             linkCLSID == readGUID_IDL(bytes, off + 4)
             showCommand == readUInt32LE(bytes, off + 60)
         IN  [fault |-> FALSE,
              headerSize |-> headerSize,
              linkCLSID |-> linkCLSID,
              linkFlags |-> readInt32LE(bytes, off + 20),
              targetAttributeFlags |-> readInt32LE(bytes, off + 24),
              targetCreationDate |-> readFileTime(bytes, off + 28, tzMinutes),
              targetAccessDate |-> readFileTime(bytes, off + 36, tzMinutes),
              targetWriteDate |-> readFileTime(bytes, off + 44, tzMinutes),
              targetFileSize |-> readUInt32LE(bytes, off + 52),
              iconIndex |-> readInt32LE(bytes, off + 56),
              showCommand |-> IF showCommand \in ShowCommands THEN showCommand
                                                               ELSE Normal,
              hotKey |-> HotKeyFlags(At(bytes, off + 64), At(bytes, off + 65)),
              valid |-> headerValid(headerSize, linkCLSID)]

\* parseHeader with the cursor advanced as its documentation describes.
cursorAdvanced(off, advance) == IF advance THEN off + VALID_HEADER_SIZE ELSE off

\* parseHeader, lines 379-380: with advance set only the local readOffset
\* grows; this.offset keeps its value.
cursorAfterHeader(off, advance) == off

-----------------------------------------------------------------------------
(* The file images the caller hands to the parser, built from what they are
   meant to encode. *)

Zeros(n) == [i \in 1..n |-> 0]

LE16(v) == <<v % 256, (v \div 256) % 256>>

\* The four little-endian bytes of an int32.
LE32(v) ==
    LET u == IF v < 0 THEN v + 2147483647 + 1 ELSE v
        top == (u \div 16777216) + (IF v < 0 THEN 128 ELSE 0)
    IN  <<u % 256, (u \div 256) % 256, (u \div 65536) % 256, top>>

\* The eight digits of a number below 2^31.
IntDigits(n) == [i \in 1..8 |-> IF i <= 4 THEN (n \div (256 ^ (i - 1))) % 256 ELSE 0]

RECURSIVE MulAddFrom(_, _, _, _, _)
MulAddFrom(digits, m, k, carry, acc) ==
    IF k > Len(digits) THEN acc
    ELSE LET v == digits[k] * m + carry
         IN  MulAddFrom(digits, m, k + 1, v \div 256, Append(acc, v % 256))

\* digits * m + a, for 0 <= m, a <= 60000.
MulAdd(digits, m, a) == MulAddFrom(digits, m, 1, a, <<>>)

\* The tick count of a time given in minutes, milliseconds and ticks.
Ticks(minutes, ms, sub) == MulAdd(MulAdd(IntDigits(minutes), 60000, ms), 10000, sub)

RECURSIVE DigitsLessFrom(_, _, _)
DigitsLessFrom(a, b, k) ==
    IF k = 0 THEN FALSE
    ELSE IF a[k] # b[k] THEN a[k] < b[k]
    ELSE DigitsLessFrom(a, b, k - 1)

DigitsLess(a, b) == DigitsLessFrom(a, b, Len(a))
DigitsLeq(a, b) == a = b \/ DigitsLess(a, b)

\* {00021401-0000-0000-C000-000000000046} in GUID wire layout, after the
\* four bytes of the header size 76.
CanonicalHead ==
    <<76, 0, 0, 0, 1, 20, 2, 0, 0, 0, 0, 0, 192, 0, 0, 0, 0, 0, 0, 70>>

\* {20D04FE0-3AEA-1069-A2D8-08002B30309D} in GUID wire layout.
MyComputerGuidBytes ==
    <<224, 79, 208, 32, 234, 58, 105, 16, 162, 216, 8, 0, 43, 48, 48, 157>>

ProbeBytes == {0, 1, 77, 128, 255}

\* The canonical first twenty bytes, and each way of changing one of them.
Heads ==
    {CanonicalHead} \cup
    {[CanonicalHead EXCEPT ![p] = v] : p \in 1..20, v \in ProbeBytes}

\* 2020-01-01T00:00:00Z is 220371840 minutes after 1601-01-01.
FieldsA ==
    [linkFlags |-> 155, targetAttributeFlags |-> 32,
     creation |-> Ticks(220371840, 1234, 2500),
     access |-> Ticks(220371841, 0, 0),
     write |-> Ticks(220371842, 59999, 7500),
     targetFileSize |-> 4096, iconIndex |-> 0 - 2, showCommand |-> 3,
     hotKey |-> <<65, 2>>]

FieldsB ==
    [linkFlags |-> 0, targetAttributeFlags |-> 0 - 1,
     creation |-> Ticks(0, 0, 0), access |-> Ticks(0, 0, 5000),
     write |-> Ticks(194074560, 0, 0),
     targetFileSize |-> 0, iconIndex |-> 70000, showCommand |-> 5,
     hotKey |-> <<0, 0>>]

Entry(tag, payload) == [tag |-> tag, payload |-> payload]

Wide(name) == [k \in 1..(2 * Len(name)) |-> IF k % 2 = 1 THEN name[(k + 1) \div 2] ELSE 0]

DriveC == Entry(DriveLetter, <<67, 58, 92>>)
DirAb == Entry(Directory, Zeros(11) \o <<97, 98, 0>>)
FileF == Entry(File, Zeros(11) \o <<102, 0>>)
DirUniAb == Entry(DirectoryUnicode, Zeros(11) \o Wide(<<97, 98>>) \o <<0, 0>>)
FileUniF == Entry(FileUnicode, Zeros(11) \o Wide(<<102>>) \o <<0, 0>>)
RootMyComputer == Entry(RootEntry, MyComputerGuidBytes)
RootOther == Entry(RootEntry, SubSeq(CanonicalHead, 5, 20))
UserDir(signature) == Entry(UserDirectory,
                            Zeros(3) \o signature \o Zeros(14) \o <<68, 0>>)
UserDirCFSF == UserDir(<<67, 70, 83, 70>>)
UserDirZip == UserDir(<<67, 70, 0, 0>>)
UserDirBad == UserDir(<<88, 88, 88, 88>>)

EntryBytes(e) == LE16(Len(e.payload) + 3) \o <<e.tag>> \o e.payload

RECURSIVE EntriesBytes(_)
EntriesBytes(es) ==
    IF es = <<>> THEN <<>> ELSE EntryBytes(Head(es)) \o EntriesBytes(Tail(es))

\* A well-formed list: the size of the items plus the terminator, the items,
\* the two zero bytes of the terminator.
WellFormed(es, trailer) ==
    [wf |-> TRUE, entries |-> es,
     raw |-> LE16(Len(EntriesBytes(es)) + 2) \o EntriesBytes(es) \o <<0, 0>>,
     trailer |-> trailer]

Raw(bytes) == [wf |-> FALSE, entries |-> <<>>, raw |-> bytes, trailer |-> <<>>]

EmptyList == WellFormed(<<>>, <<>>)

Lists ==
    { WellFormed(es, <<>>) :
        es \in { <<DriveC>>, <<DriveC, DirAb>>, <<DriveC, DirAb, FileF>>,
                 <<RootMyComputer, DriveC>>, <<RootOther>>, <<UserDirCFSF>>,
                 <<UserDirZip>>, <<DriveC, UserDirBad>>,
                 <<DriveC, DirUniAb, FileUniF>>,
                 <<Entry(153, <<1, 2>>), Entry(DriveLetter, <<>>)>> } }
    \cup { WellFormed(<<DriveC, DirAb>>, <<7, 7, 7>>),
           WellFormed(<<>>, <<9, 0, 47>>) }
    \cup { Raw(<<6, 0, 0, 0, 47, 67, 0, 0>>),     \* an item of size 0
           Raw(<<5, 0, 1, 0, 47, 0, 0>>),         \* an item of size 1
           Raw(<<9, 0, 4, 0, 47, 67>>),           \* the second item is missing
           Raw(<<5, 0, 3, 0>>),                   \* the tag byte is missing
           \* a directory whose name runs to the end of the file
           Raw(<<18, 0, 16, 0, Directory>> \o Zeros(11) \o <<97, 98>>),
           \* the same in UTF-16, the file ending inside a code unit
           Raw(<<19, 0, 17, 0, DirectoryUnicode>> \o Zeros(11) \o <<97, 0, 98>>),
           Raw(<<>>) }                            \* the file ends at byte 76

Image(head, f, list) ==
    head \o LE32(f.linkFlags) \o LE32(f.targetAttributeFlags)
         \o f.creation \o f.access \o f.write
         \o LE32(f.targetFileSize) \o LE32(f.iconIndex) \o LE32(f.showCommand)
         \o f.hotKey \o Zeros(10) \o list.raw \o list.trailer

Input(head, f, list, keep) ==
    [head |-> head, fields |-> f, list |-> list, keep |-> keep]

Inputs ==
    { Input(h, FieldsA, EmptyList, Len(Image(h, FieldsA, EmptyList))) : h \in Heads }
    \cup { Input(h, FieldsB, EmptyList, Len(Image(h, FieldsB, EmptyList))) :
             h \in {CanonicalHead} \cup
                   {[CanonicalHead EXCEPT ![p] = 255] : p \in {1, 4, 5, 20}} }
    \cup { Input(CanonicalHead, FieldsA, l, Len(Image(CanonicalHead, FieldsA, l))) :
             l \in Lists }
    \cup { Input(CanonicalHead, FieldsA, EmptyList, 40) }

FileImage(in) == Slice(Image(in.head, in.fields, in.list), 0, in.keep)

\* getTimezoneOffset() of the process: UTC+1 and UTC-5.
TzOffsets == {0 - 60, 300}

\* What the caller may assign to the items of a list it holds.
Item(e) == LinkTargetIDItem(e.tag, e.payload)

ItemChoices ==
    { <<Item(RootMyComputer)>>, <<Item(DriveC), Item(DirAb)>>,
      <<Item(DriveC), Item(UserDirBad)>>, <<Item(UserDirZip)>>,
      <<Item(UserDirCFSF), Item(FileF)>> }

-----------------------------------------------------------------------------
(* The parser, the list it returns, and their caller. *)

NoFile == [fault |-> TRUE]
NoCall == [kind |-> "none", error |-> "", file |-> NoFile]
Fault(e) == [kind |-> "fault", error |-> e, file |-> NoFile]
NoPathCall == [kind |-> "none", path |-> <<>>, error |-> "", of |-> <<>>]

GuidIdle ==
    /\ guidBytes = Zeros(16)
    /\ guidEdits = 0
    /\ guidString = NoPath

TimeIdle ==
    /\ filetime = Zeros(8)
    /\ tzOffset = 0
    /\ date = [set |-> FALSE]

ParserIdle ==
    /\ input = Input(CanonicalHead, FieldsB, EmptyList, 0)
    /\ buffer = <<>>
    /\ offset = 0
    /\ tz = 0
    /\ pc = "idle"
    /\ lnkFile = NoFile
    /\ readOffset = 0
    /\ remainingBytes = 0
    /\ shellItemSize = 0
    /\ parsedItems = <<>>
    /\ ret = NoCall
    /\ prevRet = NoCall
    /\ calls = 0
    /\ hasTarget = FALSE
    /\ items = <<>>
    /\ cachedPath = NoPath
    /\ pathRet = NoPathCall
    /\ firstPath = NoPath
    /\ edits = 0

\* new LNKParser(buffer): offset is 0; nothing has been parsed.
Init ==
    /\ input \in Inputs
    /\ buffer = FileImage(input)
    /\ offset = 0
    /\ tz \in TzOffsets
    /\ pc = "idle"
    /\ lnkFile = NoFile
    /\ readOffset = 0
    /\ remainingBytes = 0
    /\ shellItemSize = 0
    /\ parsedItems = <<>>
    /\ ret = NoCall
    /\ prevRet = NoCall
    /\ calls = 0
    /\ hasTarget = FALSE
    /\ items = <<>>
    /\ cachedPath = NoPath
    /\ pathRet = NoPathCall
    /\ firstPath = NoPath
    /\ edits = 0
    /\ GuidIdle
    /\ TimeIdle

\* The bytes LinkTargetIDList.parse is handed: buffer.slice(offset + 76).
listBuffer == Slice(buffer, offset + 76, Len(buffer))

\* The call ends with a throw: nothing is returned, and the list the caller
\* may hold from an earlier call is not touched.
EndWithFault(e) ==
    /\ ret' = Fault(e)
    /\ prevRet' = ret
    /\ calls' = calls + 1
    /\ pc' = "idle"
    /\ lnkFile' = NoFile
    /\ UNCHANGED <<hasTarget, items, cachedPath, pathRet, firstPath>>

\* parse() -> parseHeader(true), up to the while loop of
\* LinkTargetIDList.parse: the header fields, then the list size.
Parse ==
    /\ pc = "idle"
    /\ calls < MaxCalls
    /\ LET h == headerFields(buffer, offset, tz)
       IN  IF h.fault \/ Len(listBuffer) < 2
           THEN /\ EndWithFault("RangeError")
                /\ UNCHANGED <<readOffset, remainingBytes, shellItemSize, parsedItems>>
           ELSE /\ lnkFile' = h
                /\ readOffset' = 2
                /\ remainingBytes' = readUInt16LE(listBuffer, 0)
                /\ shellItemSize' = 0
                /\ parsedItems' = <<>>
                /\ pc' = "loop"
                /\ UNCHANGED <<ret, prevRet, calls, hasTarget, items, cachedPath,
                               pathRet, firstPath>>
    /\ UNCHANGED <<input, buffer, offset, tz, edits, guidVars, timeVars>>

\* One iteration of the while loop of LinkTargetIDList.parse.
ParseItem ==
    /\ pc = "loop"
    /\ remainingBytes > 2
    /\ Len(parsedItems) < MaxItems
    /\ LET st == parseItem(listBuffer, readOffset, remainingBytes, parsedItems)
       IN  IF st.fault
           THEN /\ EndWithFault("RangeError")
                /\ UNCHANGED <<readOffset, remainingBytes, shellItemSize, parsedItems>>
           ELSE /\ readOffset' = st.readOffset
                /\ remainingBytes' = st.remainingBytes
                /\ shellItemSize' = st.shellItemSize
                /\ parsedItems' = st.items
                /\ UNCHANGED <<pc, lnkFile, ret, prevRet, calls, hasTarget, items,
                               cachedPath, pathRet, firstPath>>
    /\ UNCHANGED <<input, buffer, offset, tz, edits, guidVars, timeVars>>

\* The loop has ended: parseHeader computes the path of the new list
\* (line 375) and parse() returns the record, or the throw of getPath
\* leaves both.
ParseEnd ==
    /\ pc = "loop"
    /\ remainingBytes <= 2
    /\ LET g == getPath(parsedItems, NoPath)
       IN  IF g.result.kind = "fault"
           THEN /\ EndWithFault(g.result.error)
                /\ offset' = offset
           ELSE /\ ret' = [kind |-> "file", error |-> "",
                           file |-> [header |-> lnkFile,
                                     target |-> [items |-> parsedItems,
                                                 cachedPath |-> g.cachedPath]]]
                /\ prevRet' = ret
                /\ calls' = calls + 1
                /\ pc' = "idle"
                /\ lnkFile' = NoFile
                /\ hasTarget' = TRUE
                /\ items' = parsedItems
                /\ cachedPath' = g.cachedPath
                /\ firstPath' = g.cachedPath
                /\ pathRet' = NoPathCall
                /\ offset' = cursorAfterHeader(offset, TRUE)
    /\ UNCHANGED <<input, buffer, tz, readOffset, remainingBytes, shellItemSize,
                   parsedItems, edits, guidVars, timeVars>>

\* The caller calls getPath() on the list of the record it holds.
GetPath ==
    /\ pc = "idle"
    /\ hasTarget
    /\ LET g == getPath(items, cachedPath)
       IN  /\ pathRet' = [kind |-> g.result.kind, path |-> g.result.path,
                          error |-> g.result.error, of |-> items]
           /\ cachedPath' = g.cachedPath
    /\ UNCHANGED <<input, buffer, offset, tz, pc, lnkFile, readOffset,
                   remainingBytes, shellItemSize, parsedItems, ret, prevRet, calls,
                   hasTarget, items, firstPath, edits, guidVars, timeVars>>

\* The caller assigns the public items field of the list it holds.
SetItems ==
    /\ pc = "idle"
    /\ hasTarget
    /\ edits < MaxEdits
    /\ \E new \in ItemChoices : items' = new
    /\ edits' = edits + 1
    /\ UNCHANGED <<input, buffer, offset, tz, pc, lnkFile, readOffset,
                   remainingBytes, shellItemSize, parsedItems, ret, prevRet, calls,
                   hasTarget, cachedPath, pathRet, firstPath, guidVars, timeVars>>

Next == Parse \/ ParseItem \/ ParseEnd \/ GetPath \/ SetItems

Spec == Init /\ [][Next]_vars

-----------------------------------------------------------------------------
(* The GUID decoder and formatter on their own. *)

GuidBases ==
    { MyComputerGuidBytes, SubSeq(CanonicalHead, 5, 20), Zeros(16),
      [i \in 1..16 |-> 255], [i \in 1..16 |-> 16 * (i - 1) + (16 - i)] }

GuidProbeBytes == {0, 9, 10, 127, 128, 171, 255}

InitGuid ==
    /\ ParserIdle
    /\ TimeIdle
    /\ guidBytes \in GuidBases
    /\ guidEdits = 0
    /\ guidString = NoPath

SetGuidByte ==
    /\ ~guidString.set
    /\ guidEdits < MaxGuidEdits
    /\ \E p \in 1..16, v \in GuidProbeBytes : guidBytes' = [guidBytes EXCEPT ![p] = v]
    /\ guidEdits' = guidEdits + 1
    /\ UNCHANGED <<guidString, parserVars, timeVars>>

FormatGuid ==
    /\ ~guidString.set
    /\ guidString' = [set |-> TRUE, value |-> formatGUID(guidFromIDLBytes(guidBytes))]
    /\ UNCHANGED <<guidBytes, guidEdits, parserVars, timeVars>>

NextGuid == SetGuidByte \/ FormatGuid

SpecGuid == InitGuid /\ [][NextGuid]_vars

-----------------------------------------------------------------------------
(* The FILETIME decoder on its own. *)

\* Tick counts around 1601, 1970 and 2020.  The ticks within a millisecond
\* stay further from a millisecond boundary than the rounding error of the
\* double-precision division, so the exact quotient is the computed one.
FileTimes ==
    { Ticks(m, ms, sub) :
        m \in {0, 194074559, 194074560, 194074561, 220371840},
        ms \in {0, 1234, 59999},
        sub \in {0, 2500, 7500} }

TimeZones == {0 - 60, 0, 300}

InitTime ==
    /\ ParserIdle
    /\ GuidIdle
    /\ filetime \in FileTimes
    /\ tzOffset \in TimeZones
    /\ date = [set |-> FALSE]

Convert ==
    /\ ~date.set
    /\ date' = [set |-> TRUE, value |-> dateFromFILETIME(filetime, tzOffset)]
    /\ UNCHANGED <<filetime, tzOffset, parserVars, guidVars>>

NextTime == Convert

SpecTime == InitTime /\ [][NextTime]_vars

-----------------------------------------------------------------------------
(* Properties. *)

\* The input is a complete image whose list is well formed.
WellFormedInput ==
    input.list.wf /\ input.keep = Len(Image(input.head, input.fields, input.list))

RECURSIVE SizeOfFirst(_, _)
SizeOfFirst(es, k) ==
    IF k = 0 THEN 0 ELSE SizeOfFirst(es, k - 1) + Len(es[k].payload) + 3

\* C1: on a well-formed list (size prefix S, n items of size >= 3, the zero
\* terminator, S = sum of the item sizes + 2) LinkTargetIDList.parse never
\* faults; after k iterations it holds the first k items in buffer order,
\* each with its own tag, k <= n, the cursor stands behind the k-th item and
\* the remaining count is the terminator plus the items not yet read, so the
\* loop ends after exactly n iterations; it then has consumed the size
\* prefix, the items and (counting the terminator) the whole list.
C1_WellFormedListTraversal ==
    WellFormedInput =>
        /\ ret.error # "RangeError"
        /\ pc = "loop" =>
            LET es == input.list.entries
                n == Len(es)
                k == Len(parsedItems)
            IN  /\ k <= n
                /\ \A i \in 1..k : parsedItems[i].itemType = es[i].tag
                /\ readOffset = 2 + SizeOfFirst(es, k)
                /\ remainingBytes = 2 + SizeOfFirst(es, n) - SizeOfFirst(es, k)
                /\ remainingBytes <= 2 =>
                    /\ k = n
                    /\ readOffset + 2 = SizeOfFirst(es, n) + 2 + 2
                    /\ readOffset + 2 = Len(input.list.raw)

C1_Witness ==
    /\ WellFormedInput
    /\ pc = "loop"
    /\ remainingBytes <= 2
    /\ Len(parsedItems) = 3
    /\ parsedItems[3].itemType = File

\* C2: the returned record has valid = TRUE exactly when the first twenty
\* bytes of the buffer are the header size 76 and the canonical class
\* identifier; whatever those bytes are, every other field holds what the
\* caller encoded at its place in the fixed 76-byte layout.
C2_HeaderValidity ==
    ret.kind = "file" =>
        LET h == ret.file.header
            f == input.fields
        IN  /\ h.valid <=> (SubSeq(buffer, 1, 20) = CanonicalHead)
            /\ h.linkFlags = f.linkFlags
            /\ h.targetAttributeFlags = f.targetAttributeFlags
            /\ h.targetCreationDate = dateFromFILETIME(f.creation, tz)
            /\ h.targetAccessDate = dateFromFILETIME(f.access, tz)
            /\ h.targetWriteDate = dateFromFILETIME(f.write, tz)
            /\ h.targetFileSize = f.targetFileSize
            /\ h.iconIndex = f.iconIndex
            /\ h.showCommand = (IF f.showCommand \in {1, 3, 7} THEN f.showCommand ELSE 1)
            /\ h.hotKey.hotKey = f.hotKey[1]
            /\ h.hotKey.modifierFlags = f.hotKey[2]

C2_Witness ==
    /\ ret.kind = "file"
    /\ ~ret.file.header.valid
    /\ input.head[1] = 77
    /\ \A p \in 2..20 : input.head[p] = CanonicalHead[p]
    /\ ret.file.header.linkFlags = 155
    /\ ret.file.header.iconIndex = 0 - 2

\* C3: getPath on a list whose only item is a RootEntry holding the
\* "My Computer" GUID {20D04FE0-3AEA-1069-A2D8-08002B30309D} returns that
\* root's label, 'MY_COMPUTER'.
C3_MyComputerRootAppendsLabel ==
    (pathRet.kind = "path" /\ pathRet.of = <<Item(RootMyComputer)>>) =>
        pathRet.path = <<77, 89, 95, 67, 79, 77, 80, 85, 84, 69, 82>>

\* A list holds a UserDirectory item whose signature is not 'CFSF'.
MeetsBadUserDirectory(list) ==
    \E i \in 1..Len(list) :
        /\ list[i].itemType = UserDirectory
        /\ Slice(list[i].value, 3, 7) # <<67, 70, 83, 70>>

\* C4: a getPath call on a list with a UserDirectory item whose signature is
\* 'CF\0\0' or anything else than 'CFSF' throws, whatever precedes the
\* item: the call returns no path and leaves cachedPath as it was; inside
\* parse() the throw ends the call, and the caller gets the throw and no
\* record.
C4_BadUserDirectoryFaults ==
    [][ /\ (GetPath /\ MeetsBadUserDirectory(items)) =>
              /\ pathRet'.kind = "fault"
              /\ pathRet'.error \in {"Method not implemented", "Invalid signature!"}
              /\ pathRet'.path = <<>>
              /\ cachedPath' = cachedPath
        /\ (ParseEnd /\ MeetsBadUserDirectory(parsedItems)) =>
              /\ ret'.kind = "fault"
              /\ ret'.error \in {"Method not implemented", "Invalid signature!"}
              /\ cachedPath' = cachedPath
              /\ hasTarget' = hasTarget ]_vars

C4_Witness ==
    /\ pathRet.kind = "fault"
    /\ pathRet.error = "Invalid signature!"
    /\ Len(pathRet.of) = 2
    /\ cachedPath.set
    /\ cachedPath.value = <<67, 58, 92, 97, 98, 92>>

\* C5 as claimed: once a path has been computed for a list, every getPath
\* call returns that first path.
C5_FirstPathReturnedEverAfter ==
    (pathRet.kind = "path" /\ firstPath.set) => pathRet.path = firstPath.value

\* C5 as amended: every getPath call computes the path of the items the
\* list holds at the call, returns it and stores it in cachedPath; so
\* C:\ and the directory ab give 'C:\ab\' whatever was computed before.
C5_PathRecomputedOnEveryCall ==
    pathRet.kind = "path" =>
        /\ pathRet.path = computePath(pathRet.of).path
        /\ cachedPath = [set |-> TRUE, value |-> pathRet.path]
        /\ pathRet.of = <<Item(DriveC), Item(DirAb)>> =>
               pathRet.path = <<67, 58, 92, 97, 98, 92>>

C5_Witness ==
    /\ pathRet.kind = "path"
    /\ firstPath.set
    /\ firstPath.value = <<67, 58, 92>>
    /\ pathRet.path = <<67, 58, 92, 97, 98, 92>>
    /\ cachedPath.value = pathRet.path

\* The value of a lowercase hex digit; any other code unit has none.
HexValue(c) ==
    IF c \in 48..57 THEN c - 48 ELSE IF c \in 97..102 THEN c - 87 ELSE undefined

\* The places of the 32 hex digits in {8-4-4-4-12}.
HexPlace(k) ==
    k + 1 + (IF k > 8 THEN 1 ELSE 0) + (IF k > 12 THEN 1 ELSE 0)
          + (IF k > 16 THEN 1 ELSE 0) + (IF k > 20 THEN 1 ELSE 0)

\* The sixteen bytes the hex digits of a GUID string spell, in the order of
\* the GUID wire layout: the first three fields are stored little-endian.
ReparsedBytes(str) ==
    LET shown == [j \in 1..16 |-> 16 * HexValue(str[HexPlace(2 * j - 1)])
                                  + HexValue(str[HexPlace(2 * j)])]
        place == <<4, 3, 2, 1, 6, 5, 8, 7, 9, 10, 11, 12, 13, 14, 15, 16>>
    IN  [i \in 1..16 |-> shown[place[i]]]

\* C6: for sixteen input bytes formatGUID(guidFromIDLBytes(bytes)) is
\* { 8 hex - 4 hex - 4 hex - 4 hex - 12 hex } with the digits 0-9 and a-f
\* only, also when byte 3 makes the first field negative, and the bytes its
\* hex digits spell are the input bytes.
C6_GuidRoundTrip ==
    guidString.set =>
        LET str == guidString.value
        IN  /\ Len(str) = 38
            /\ str[1] = 123
            /\ str[38] = 125
            /\ \A k \in {10, 15, 20, 25} : str[k] = 45
            /\ \A k \in 1..32 : str[HexPlace(k)] \in (48..57) \cup (97..102)
            /\ \A i \in 1..16 : ReparsedBytes(str)[i] = guidBytes[i]

C6_Witness ==
    /\ guidString.set
    /\ guidBytes[4] = 171
    /\ guidEdits = 1
    /\ guidBytes[1] = 224
    /\ SubSeq(guidString.value, 1, 10) = <<123, 97, 98, 100, 48, 52, 102, 101, 48, 45>>

\* 11,644,473,600,000 ms and 116,444,736,000,000 ms, in minutes.
EpochMinutes == (116444736 \div 6) * 10
ClaimedEpochMinutes == (116444736 \div 6) * 100

\* The Date d is filetime / 10000 - (epoch + tzOffset) minutes, cut to whole
\* milliseconds towards zero.  With D = d + epoch + tzOffset (in ms) and
\* x = filetime / 10000 - D: d > 0 needs 0 <= x, d < 0 needs x <= 0, and
\* always -1 < x < 1.
IsDateOf(d, epochMinutes) ==
    LET D == Ticks(d.min + epochMinutes + tzOffset, d.ms, 0)
        D1 == Ticks(d.min + epochMinutes + tzOffset, d.ms, 10000)
    IN  /\ d.ms \in 0..59999
        /\ DigitsLess(filetime, D1)
        /\ DigitsLess(D, MulAdd(filetime, 1, 10000))
        /\ (d.min > 0 \/ (d.min = 0 /\ d.ms > 0)) => DigitsLeq(D, filetime)
        /\ d.min < 0 => DigitsLeq(filetime, D)

\* C7 as claimed: the offset between the epochs is 116,444,736,000,000 ms.
C7_ClaimedEpochOffset == date.set => IsDateOf(date.value, ClaimedEpochMinutes)

\* C7 as amended: dateFromFILETIME converts the tick count t to the
\* millisecond value t / 10,000 minus 11,644,473,600,000 ms minus the local
\* timezone offset in milliseconds (as a Date, so cut to whole milliseconds).
C7_EpochOffset == date.set => IsDateOf(date.value, EpochMinutes)

C7_Witness ==
    /\ date.set
    /\ filetime = Ticks(220371840, 1234, 2500)
    /\ tzOffset = 300
    /\ date.value = [min |-> 220371840 - 194074560 - 300, ms |-> 1234]

C9_IterationFaultsOrProgresses ==
    [][(pc = "loop" /\ pc' = "loop") => remainingBytes' < remainingBytes]_vars

\* C10: each item parse produces holds exactly the payload of its own
\* item, the itemSize - 3 bytes after its tag.
C10_ItemHoldsOwnPayload ==
    (WellFormedInput /\ pc = "loop") =>
        \A i \in 1..Len(parsedItems) :
            i <= Len(input.list.entries) =>
                parsedItems[i].value = input.list.entries[i].payload

\* The items whose path segment getPath reads as a zero-terminated string
\* from offset 11 of the value, narrow or wide.
NarrowNamed(item) == item.itemType \in {Directory, File}
WideNamed(item) == item.itemType \in {DirectoryUnicode, FileUnicode}

\* The run from offset 11 of the value holds its terminator: a zero byte,
\* or a whole zero code unit at an even distance from the start of the run.
Terminated(item) ==
    /\ NarrowNamed(item) =>
           \E j \in 12..Len(item.value) : item.value[j] = 0
    /\ WideNamed(item) =>
           \E k \in 0..Len(item.value) :
               /\ 13 + 2 * k <= Len(item.value)
               /\ item.value[12 + 2 * k] = 0
               /\ item.value[13 + 2 * k] = 0

\* C11: structural faults are surfaced as errors.  While parse walks the
\* list, the tag byte of the item it has just built lies inside the buffer;
\* and a record is returned only when every item whose name getPath read
\* with readCString or readCUnicode holds the zero terminator of that name:
\* otherwise the call has ended in a fault instead of a string or an item
\* built from reads past the end.
C11_StructuralFaultsSurface ==
    /\ (pc = "loop" /\ parsedItems # <<>>) =>
           readOffset - shellItemSize + 2 < Len(listBuffer)
    /\ (pc = "idle" /\ ret.kind = "file") =>
           \A i \in 1..Len(ret.file.target.items) :
               Terminated(ret.file.target.items[i])

=============================================================================
